---- MODULE Spec2Model ----
(***************************************************************************)
(* Model of src/bot.py: a Telegram bot that stores the last YouTube link   *)
(* of a user (handle_message), and on a button press (button_handler) runs *)
(* download_and_send_media once per requested media type: probe metadata,  *)
(* check the probed size, download (with one fallback), check the real     *)
(* size, upload, and remove the local file in a finally block.             *)
(*                                                                         *)
(* The Application is built with the default update processing             *)
(* (src/bot.py:315), so one update is handled to completion before the     *)
(* next one is taken: the model runs one handler at a time.  The telegram  *)
(* transport, yt_dlp and the file system are the environment: every call   *)
(* into them has each outcome they can produce.                            *)
(***************************************************************************)
EXTENDS Integers, Sequences, FiniteSets, TLC

\* ------------------------------------------------------------------ bounds
\* Number of updates (text messages and button presses) the bot processes.
MaxUpdates == 3

\* --------------------------------------------------------------- constants
DOWNLOAD_DIR == "downloads"
MAX_FILE_SIZE == 50 * 1024 * 1024

MediaTypes == {"video", "audio"}
Choices == {"download_video", "download_audio", "download_both"}

\* Python's None for a dictionary entry that holds a number.
None == -1
\* user_data without a 'url' entry.
NoUrl == << >>
\* file_path = None
NoPath == ""
\* info = None
NoInfo == [none |-> TRUE]

\* ------------------------------------------------------------------- texts
\* A text is a sequence of characters.
yt1 == <<"y","o","u","t","u","b","e",".","c","o","m">>
yt2 == <<"y","o","u","t","u",".","b","e">>
yt3 == <<"w","w","w",".">> \o yt1
yt4 == <<"m",".">> \o yt1
youtube_domains == <<yt1, yt2, yt3, yt4>>

Whitespace == {" ", "\n", "\t"}

RECURSIVE lstrip(_)
lstrip(s) == IF s # << >> /\ Head(s) \in Whitespace THEN lstrip(Tail(s)) ELSE s

RECURSIVE rstrip(_)
rstrip(s) ==
    IF s # << >> /\ s[Len(s)] \in Whitespace
    THEN rstrip(SubSeq(s, 1, Len(s) - 1))
    ELSE s

\* str.strip()
strip(s) == rstrip(lstrip(s))

\* domain in url
Contains(url, domain) ==
    \E i \in 1..(Len(url) - Len(domain) + 1) :
        SubSeq(url, i, i + Len(domain) - 1) = domain

\* A variant that looks for the end of the host name alone.
is_valid_youtube_url_AnyCom(url) == Contains(url, <<".","c","o","m">>) \/ Contains(url, yt2)

is_valid_youtube_url(url) ==
    \E d \in 1..Len(youtube_domains) : Contains(url, youtube_domains[d])

\* The texts a user sends.
\* Two links to the same video, and a link to another site.
TextA == <<" ">> \o yt2 \o <<"/","a"," ">>
TextB == yt4 \o <<"/","w","?","v","=","a">>
TextBad == <<"v","i","m","e","o",".","c","o","m","/","c">>
Texts == {TextA, TextB, TextBad}

\* The content identifier the extractor reports for a link ('%(id)s').
VideoId(url) == url[Len(url)]

\* ------------------------------------------------------------------- sizes
\* Truthiness of a number or None: `if filesize`.
Truthy(x) == x # None /\ x # 0

\* a or b
PyOr(a, b) == IF Truthy(a) THEN a ELSE b

\* Sizes around the ceiling.
NearCeiling == {MAX_FILE_SIZE - 1, MAX_FILE_SIZE, MAX_FILE_SIZE + 1}
\* What the metadata can hold as <<'filesize', 'filesize_approx'>>: neither;
\* an exact size of 0 beside an approximate one; an exact size at the ceiling
\* beside an approximate one above it; an exact size above the ceiling, alone
\* and beside an approximate one at it; an approximate size alone.
ProbeSizes ==
    {<<None, None>>, <<0, MAX_FILE_SIZE + 1>>,
     <<MAX_FILE_SIZE, MAX_FILE_SIZE + 1>>,
     <<MAX_FILE_SIZE + 1, None>>, <<MAX_FILE_SIZE + 1, MAX_FILE_SIZE>>,
     <<None, MAX_FILE_SIZE + 1>>}
\* What os.path.getsize can return for a downloaded file.
FileSizes == NearCeiling

\* The container the primary format of a media type asks for (line 125).
ProbedExt(media_type) == IF media_type = "video" THEN "mp4" ELSE "m4a"
\* A name the download engine uses when it resolves another format, or keeps
\* the data of a transfer that did not finish.
StrayExt == "webm.part"

Infos ==
    {[id |-> VideoId(strip(t)), ext |-> ProbedExt(k), filesize |-> s[1], filesize_approx |-> s[2]] :
        t \in Texts, k \in MediaTypes, s \in ProbeSizes}

\* A variant that reads the exact size alone.
ProbedSize_ExactOnly(i) == i.filesize

\* filesize = info.get('filesize') or info.get('filesize_approx')
ProbedSize(i) == PyOr(i.filesize, i.filesize_approx)

\* A variant that turns an unknown size away.
PreCheckRejects_Unknown(filesize) == ~Truthy(filesize) \/ filesize > MAX_FILE_SIZE

\* if filesize and filesize > MAX_FILE_SIZE
PreCheckRejects(filesize) == Truthy(filesize) /\ filesize > MAX_FILE_SIZE

\* Variants: the comparison left out, and the ceiling itself turned away.
PostCheckRejects_Never(actual_size) == FALSE
PostCheckRejects_AtCeiling(actual_size) == actual_size >= MAX_FILE_SIZE

\* if actual_size > MAX_FILE_SIZE
PostCheckRejects(actual_size) == actual_size > MAX_FILE_SIZE

\* f"{x / 1024 / 1024:.1f}": tenths of a MiB, rounded half to even.
Fmt1f(bytes) ==
    LET twice == (bytes * 20) \div (1024 * 1024)
        exact == (bytes * 20) % (1024 * 1024) = 0
        t == twice \div 2
    IN  IF twice % 2 = 0 THEN t
        ELSE IF exact /\ t % 2 = 0 THEN t ELSE t + 1

\* A variant whose template leaves the media type out.
StagingPath_NoKind(id, media_type, ext) == DOWNLOAD_DIR \o "/" \o id \o "." \o ext

\* os.path.join(DOWNLOAD_DIR, f'%(id)s_{media_type}.%(ext)s') filled in.
StagingPath(id, media_type, ext) ==
    DOWNLOAD_DIR \o "/" \o id \o "_" \o media_type \o "." \o ext

\* ydl.prepare_filename(info)
prepare_filename(i, media_type) == StagingPath(i.id, media_type, i.ext)

\* ---------------------------------------------------------------- messages
MsgPreparing(media_type) == <<"Preparing", media_type>>
MsgCannotDownload ==
    <<"Cannot download this video. It might be private, age-restricted, or unavailable in this region.">>
MsgTooLarge(filesize) == <<"File too large", Fmt1f(filesize), "MB). Max 50 MB.">>
MsgDownloading(media_type) == <<"Downloading", media_type>>
MsgDownloadFailed == <<"Download failed. The video format might not be supported.">>
MsgDownloadedTooLarge(actual_size) == <<"Downloaded file too large", Fmt1f(actual_size)>>
MsgUploading(media_type) == <<"Uploading", media_type>>
\* f"Error: {str(e)[:100]}..."
MsgError(e) == <<"Error", e>>
NoMsg == << >>
Deleted == <<"(deleted)">>

\* Why the source refuses a metadata query.
Causes == {"restricted", "unavailable"}

\* ------------------------------------------------------------------- state
Users == {"u1"}

VARIABLES
    user_data,      \* context.user_data of each user: the stored 'url' or NoUrl
    last_reply,     \* the reply_text call made for the latest update: its text, whether
                    \* with buttons, and the message text it replies to
    updates,        \* number of updates taken so far
    disk,           \* the files under DOWNLOAD_DIR: path -> size in bytes
    bh,             \* the running button_handler: position and locals
    run,            \* per media type: the frame of download_and_send_media
    terminal_msgs   \* per cause of a failed probe: the final status texts shown so far

vars == <<user_data, last_reply, updates, disk, bh, run, terminal_msgs>>

Idle == [pc |-> "idle", user |-> "u1", choice |-> "download_video", url |-> NoUrl,
         video_success |-> FALSE, audio_success |-> FALSE, query_text |-> NoMsg,
         sent |-> NoMsg,           \* the message of line 98, when sent
         completion |-> NoMsg]     \* the completion message, when sent

\* A frame of download_and_send_media before its first statement, and after
\* its locals are gone.
NewFrame(pc, url) ==
    [pc |-> pc, url |-> url,
     file_path |-> NoPath, status_msg |-> FALSE, info |-> NoInfo,   \* locals
     actual_size |-> None,
     e |-> "", ret |-> "none",
     shown |-> NoMsg,          \* what the status message shows in the chat
     extra |-> NoMsg,          \* a further message the run sent (line 298)
     cause |-> "none",         \* why the probe failed, if it did
     pre |-> "none",           \* decision of the size check before download
     post |-> "none",          \* decision of the size check after download
     downloads |-> << >>,      \* the download calls made: format, outcome
     written |-> {},           \* paths the download calls wrote
     sent_size |-> None,       \* size of the file handed to send_video/send_audio
     delivered |-> FALSE,      \* send_video/send_audio completed
     cleanup |-> "none",       \* what the finally block did about file_path
     cleanup_log |-> << >>]    \* what the finally block passed to the logger

NoFrame == NewFrame("idle", NoUrl)

NoReply == [text |-> NoMsg, buttons |-> FALSE, to |-> NoMsg]

Init ==
    /\ user_data = [u \in Users |-> NoUrl]
    /\ last_reply = NoReply
    /\ updates = 0
    /\ disk = << >>
    /\ bh = Idle
    /\ run = [k \in MediaTypes |-> NoFrame]
    /\ terminal_msgs = [c \in Causes |-> {}]

\* ------------------------------------------------------------ file system
exists(path) == path \in DOMAIN disk
Write(d, path, size) == (path :> size) @@ d
Remove(d, path) == [p \in DOMAIN d \ {path} |-> d[p]]

\* ---------------------------------------------------------- handle_message
handle_message(u, text) ==
    /\ bh.pc = "idle"
    /\ updates < MaxUpdates
    /\ updates' = updates + 1
    /\ LET message_text == strip(text) IN
       IF ~is_valid_youtube_url(message_text)
       THEN /\ last_reply' = [text |-> <<"Please send a valid YouTube URL!">>,
                               buttons |-> FALSE, to |-> text]
            /\ UNCHANGED user_data
       ELSE /\ user_data' = [user_data EXCEPT ![u] = message_text]
            /\ last_reply' = [text |-> <<"Choose download type:">>,
                               buttons |-> TRUE, to |-> text]
    /\ UNCHANGED <<disk, bh, run, terminal_msgs>>

\* ------------------------------------------------- download_and_send_media
\* The steps of one call, for media type k.  A bot call either completes or
\* raises; a raise inside the try block is taken by `except Exception`.

SetRun(k, frame) == run' = [run EXCEPT ![k] = frame]

\* control reaches `except Exception as e` (line 292)
Raised(k, exc) == [run[k] EXCEPT !.pc = "except", !.e = exc]

\* `return value` inside the try statement: the finally block runs next
Returning(frame, value) == [frame EXCEPT !.pc = "finally", !.ret = value]

ReturnFalse(frame) == Returning(frame, "False")

\* context.bot.edit_message_text(text, message_id=status_msg.message_id)
\* at position `at`; on completion the run goes on at position `then`, or
\* returns False when `then` is "return"
EditStatus(k, at, text, then) ==
    /\ run[k].pc = at
    /\ \E ok \in BOOLEAN :
         IF ~ok THEN SetRun(k, Raised(k, "TelegramError"))
         ELSE LET f == [run[k] EXCEPT !.shown = text] IN
              IF then = "return" THEN SetRun(k, ReturnFalse(f))
              ELSE SetRun(k, [f EXCEPT !.pc = then])
    /\ UNCHANGED <<user_data, last_reply, updates, disk, bh, terminal_msgs>>

\* line 121
SendPreparing(k) ==
    /\ run[k].pc = "start"
    /\ \E ok \in BOOLEAN :
         IF ok
         THEN SetRun(k, [run[k] EXCEPT !.pc = "extract_info", !.status_msg = TRUE,
                                       !.shown = MsgPreparing(k)])
         ELSE SetRun(k, Raised(k, "TelegramError"))
    /\ UNCHANGED <<user_data, last_reply, updates, disk, bh, terminal_msgs>>

\* What a metadata query of a link can answer.
InfosOf(url, k) == {i \in Infos : i.id = VideoId(url) /\ i.ext = ProbedExt(k)}

\* lines 182-190: ydl.extract_info(url, download=False); no info, or an
\* exception, leads to the alternative approach
ExtractInfo(k) ==
    /\ run[k].pc = "extract_info"
    /\ \/ \E i \in InfosOf(run[k].url, k) :
            SetRun(k, [run[k] EXCEPT !.pc = "size_check", !.info = i])
       \/ SetRun(k, [run[k] EXCEPT !.pc = "alt_extract_info"])
    /\ UNCHANGED <<user_data, last_reply, updates, disk, bh, terminal_msgs>>

\* lines 193-207: the query again with the alternative options.  With
\* 'ignoreerrors' (line 131) a refused query may also answer None.
AltExtractInfo(k) ==
    /\ run[k].pc = "alt_extract_info"
    /\ \/ \E i \in InfosOf(run[k].url, k) :
            SetRun(k, [run[k] EXCEPT !.pc = "size_check", !.info = i])
       \/ \E c \in Causes, raises \in BOOLEAN :
            SetRun(k, [run[k] EXCEPT !.cause = c, !.info = NoInfo,
                          !.pc = IF raises THEN "edit_cannot" ELSE "size_check"])
    /\ UNCHANGED <<user_data, last_reply, updates, disk, bh, terminal_msgs>>

\* A variant with a text of its own for a restricted source.
ProbeFailureMsg_PerCause(c) ==
    IF c = "restricted" THEN <<"This video is restricted.">> ELSE MsgCannotDownload

\* The status text for a probe that failed for cause c (lines 208-212).
ProbeFailureMsg(c) == MsgCannotDownload

\* lines 208-214
RejectProbe(k) ==
    EditStatus(k, "edit_cannot", ProbeFailureMsg(run[k].cause), "return")

\* lines 217-218: info.get on None raises AttributeError
SizeCheckPre(k) ==
    /\ run[k].pc = "size_check"
    /\ IF run[k].info = NoInfo
       THEN SetRun(k, Raised(k, "AttributeError"))
       ELSE LET filesize == ProbedSize(run[k].info) IN
            IF PreCheckRejects(filesize)
            THEN SetRun(k, [run[k] EXCEPT !.pc = "edit_too_large", !.pre = "reject"])
            ELSE SetRun(k, [run[k] EXCEPT !.pc = "edit_downloading", !.pre = "allow"])
    /\ UNCHANGED <<user_data, last_reply, updates, disk, bh, terminal_msgs>>

\* lines 219-225
RejectProbedSize(k) ==
    EditStatus(k, "edit_too_large", MsgTooLarge(ProbedSize(run[k].info)), "return")

\* lines 228-232
AnnounceDownload(k) ==
    EditStatus(k, "edit_downloading", MsgDownloading(k), "download")

\* line 125: ydl_opts['format']
PrimaryFormat(media_type) ==
    IF media_type = "video" THEN "best[height<=480][ext=mp4]/best[ext=mp4]/best"
    ELSE "bestaudio[ext=m4a]/bestaudio"

\* line 242: fallback_ydl_opts['format']
FallbackFormat(media_type) ==
    IF media_type = "video" THEN "worst[ext=mp4]/worst" ELSE "worstaudio/worst"

\* What one download call can leave under the output template of media type
\* k: nothing, the file under the probed name, or a file under another name
\* (another format was resolved, or the transfer did not finish).
Leavings(k) ==
    {[path |-> NoPath, size |-> 0]} \cup
    [path : {StagingPath(run[k].info.id, k, ProbedExt(k))}, size : FileSizes] \cup
    {[path |-> StagingPath(run[k].info.id, k, StrayExt), size |-> MAX_FILE_SIZE - 1]}

\* The frame and the disk after a download call with format fmt that left w.
Downloaded(k, fmt, raised, w) ==
    [run[k] EXCEPT
        !.downloads = Append(@, [format |-> fmt, raised |-> raised, wrote |-> w.path]),
        !.written = IF w.path = NoPath THEN @ ELSE @ \cup {w.path}]

DiskAfter(w) == IF w.path = NoPath THEN disk ELSE Write(disk, w.path, w.size)

\* lines 234-238: ydl.download([url]); file_path = ydl.prepare_filename(info).
\* With 'ignoreerrors' (line 131) a failed download may return as well as raise.
Download(k) ==
    /\ run[k].pc = "download"
    /\ \E raised \in BOOLEAN, w \in Leavings(k) :
         LET f == Downloaded(k, PrimaryFormat(k), raised, w) IN
         /\ disk' = DiskAfter(w)
         /\ IF raised
            THEN SetRun(k, [f EXCEPT !.pc = "fallback"])
            ELSE SetRun(k, [f EXCEPT !.pc = "exists_check",
                                     !.file_path = prepare_filename(run[k].info, k)])
    /\ UNCHANGED <<user_data, last_reply, updates, bh, terminal_msgs>>

\* lines 241-246: the same with the fallback format; an exception here is
\* taken by the outer handler
FallbackDownload(k) ==
    /\ run[k].pc = "fallback"
    /\ \E raised \in BOOLEAN, w \in Leavings(k) :
         LET f == Downloaded(k, FallbackFormat(k), raised, w) IN
         /\ disk' = DiskAfter(w)
         /\ IF raised
            THEN SetRun(k, [f EXCEPT !.pc = "except", !.e = "DownloadError"])
            ELSE SetRun(k, [f EXCEPT !.pc = "exists_check",
                                     !.file_path = prepare_filename(run[k].info, k)])
    /\ UNCHANGED <<user_data, last_reply, updates, bh, terminal_msgs>>

\* lines 248, 257-258: os.path.exists(file_path), os.path.getsize(file_path)
SizeCheckPost(k) ==
    /\ run[k].pc = "exists_check"
    /\ IF ~exists(run[k].file_path)
       THEN SetRun(k, [run[k] EXCEPT !.pc = "edit_download_failed"])
       ELSE LET actual_size == disk[run[k].file_path] IN
            IF PostCheckRejects(actual_size)
            THEN SetRun(k, [run[k] EXCEPT !.pc = "edit_downloaded_too_large",
                                          !.actual_size = actual_size, !.post = "reject"])
            ELSE SetRun(k, [run[k] EXCEPT !.pc = "edit_uploading",
                                          !.actual_size = actual_size, !.post = "allow"])
    /\ UNCHANGED <<user_data, last_reply, updates, disk, bh, terminal_msgs>>

\* lines 249-254
ReportDownloadFailed(k) ==
    EditStatus(k, "edit_download_failed", MsgDownloadFailed, "return")

\* lines 259-264
RejectActualSize(k) ==
    EditStatus(k, "edit_downloaded_too_large",
               MsgDownloadedTooLarge(run[k].actual_size), "return")

\* lines 267-271
AnnounceUpload(k) ==
    EditStatus(k, "edit_uploading", MsgUploading(k), "upload")

\* lines 273-287: open(file_path, 'rb'), then send_video or send_audio
Upload(k) ==
    /\ run[k].pc = "upload"
    /\ IF ~exists(run[k].file_path)
       THEN SetRun(k, Raised(k, "FileNotFoundError"))
       ELSE \E ok \in BOOLEAN :
              LET f == [run[k] EXCEPT !.sent_size = disk[run[k].file_path]] IN
              IF ok THEN SetRun(k, [f EXCEPT !.pc = "delete_message", !.delivered = TRUE])
              ELSE SetRun(k, [f EXCEPT !.pc = "except", !.e = "TelegramError"])
    /\ UNCHANGED <<user_data, last_reply, updates, disk, bh, terminal_msgs>>

\* lines 289-290
DeleteStatus(k) ==
    /\ run[k].pc = "delete_message"
    /\ \E ok \in BOOLEAN :
         IF ok THEN SetRun(k, Returning([run[k] EXCEPT !.shown = Deleted], "True"))
         ELSE SetRun(k, Raised(k, "TelegramError"))
    /\ UNCHANGED <<user_data, last_reply, updates, disk, bh, terminal_msgs>>

\* lines 292-299: the handler's own bot call may raise too, and that
\* exception leaves the function
Except(k) ==
    /\ run[k].pc = "except"
    /\ LET error_msg == MsgError(run[k].e) IN
       \E ok \in BOOLEAN :
         IF ~ok THEN SetRun(k, Returning(run[k], "raise"))
         ELSE IF run[k].status_msg
              THEN SetRun(k, ReturnFalse([run[k] EXCEPT !.shown = error_msg]))
              ELSE SetRun(k, ReturnFalse([run[k] EXCEPT !.extra = error_msg]))
    /\ UNCHANGED <<user_data, last_reply, updates, disk, bh, terminal_msgs>>

\* The record of final status texts, with this run's added when its probe failed.
Recorded(frame) ==
    IF frame.cause \in Causes
    THEN [terminal_msgs EXCEPT ![frame.cause] = @ \cup {frame.shown}]
    ELSE terminal_msgs

\* A variant without the guard of line 302 and the try of lines 303-306:
\* os.remove of a path that is None or not there raises.
Cleanup_Unguarded(d, file_path) ==
    IF file_path # NoPath /\ file_path \in DOMAIN d
    THEN {[disk |-> Remove(d, file_path), did |-> "removed", raises |-> FALSE, logs |-> << >>],
          [disk |-> d, did |-> "failed", raises |-> TRUE, logs |-> << >>]}
    ELSE {[disk |-> d, did |-> "failed", raises |-> TRUE, logs |-> << >>]}

\* lines 302-306: what the body of the finally block can do on file system d.
\* os.remove may raise, which `except: pass` drops without a word.
Cleanup(d, file_path) ==
    IF file_path # NoPath /\ file_path \in DOMAIN d
    THEN {[disk |-> Remove(d, file_path), did |-> "removed", raises |-> FALSE, logs |-> << >>],
          [disk |-> d, did |-> "failed", raises |-> FALSE, logs |-> << >>]}
    ELSE {[disk |-> d, did |-> "absent", raises |-> FALSE, logs |-> << >>]}

\* lines 301-306; the pending return value or exception then takes effect,
\* unless the block itself raised
Finally(k) ==
    /\ run[k].pc = "finally"
    /\ \E o \in Cleanup(disk, run[k].file_path) :
         /\ disk' = o.disk
         /\ SetRun(k, [run[k] EXCEPT
                !.pc = IF o.raises \/ run[k].ret = "raise" THEN "raised" ELSE "returned",
                !.ret = IF o.raises THEN "raise" ELSE @,
                !.cleanup = o.did, !.cleanup_log = o.logs])
    /\ terminal_msgs' = Recorded(run[k])
    /\ UNCHANGED <<user_data, last_reply, updates, bh>>

\* ---------------------------------------------------------- button_handler
\* The handler is over (it returned, or an exception left it): its frames go.
HandlerEnds ==
    /\ bh' = Idle
    /\ run' = [k \in MediaTypes |-> NoFrame]

\* A variant in which the caller goes on once the value is set, before the
\* finally block has run.
Awaited_BeforeFinally(k) == run[k].pc \in {"finally", "returned", "raised"}

\* `await download_and_send_media(...)` has its value or its exception
Awaited(k) == run[k].pc \in {"returned", "raised"}

\* The frame of a call that is over: its locals are gone; what stays is that
\* it is over, what it returned, why its probe failed, if it did, and
\* whether the media went out.
Over(k) ==
    [NewFrame(run[k].pc, NoUrl) EXCEPT
        !.ret = run[k].ret, !.cause = run[k].cause, !.delivered = run[k].delivered]

\* lines 77-82: a button press is taken; query.answer()
Press(u, c) ==
    /\ bh.pc = "idle"
    /\ updates < MaxUpdates
    /\ updates' = updates + 1
    /\ \E ok \in BOOLEAN :
         IF ok
         THEN /\ bh' = [Idle EXCEPT !.pc = "answered", !.user = u, !.choice = c,
                                    !.url = user_data[u]]
              /\ run' = [k \in MediaTypes |-> NoFrame]
         ELSE HandlerEnds
    /\ last_reply' = NoReply
    /\ UNCHANGED <<user_data, disk, terminal_msgs>>

\* line 84: `not url`, for None and for the empty text
NotUrl(url) == url = NoUrl

\* lines 84-88: query.edit_message_text, then return or go on
CheckUrl ==
    /\ bh.pc = "answered"
    /\ \E ok \in BOOLEAN :
         IF ~ok THEN HandlerEnds
         ELSE IF NotUrl(bh.url)
         THEN /\ bh' = [bh EXCEPT !.pc = "done", !.query_text = <<"Please send the link again.">>]
              /\ UNCHANGED run
         ELSE /\ bh' = [bh EXCEPT !.pc = "video", !.query_text = <<"Processing your request...">>]
              /\ UNCHANGED run
    /\ UNCHANGED <<user_data, last_reply, updates, disk, terminal_msgs>>

\* lines 93-94: the call
StartVideo ==
    /\ bh.pc = "video"
    /\ IF bh.choice \in {"download_video", "download_both"}
       THEN /\ bh' = [bh EXCEPT !.pc = "await_video"]
            /\ SetRun("video", NewFrame("start", bh.url))
       ELSE /\ bh' = [bh EXCEPT !.pc = "audio"]
            /\ UNCHANGED run
    /\ UNCHANGED <<user_data, last_reply, updates, disk, terminal_msgs>>

\* line 94: the await completes
VideoDone ==
    /\ bh.pc = "await_video"
    /\ Awaited("video")
    /\ IF run["video"].pc = "raised"
       THEN HandlerEnds
       ELSE /\ bh' = [bh EXCEPT !.pc = "audio", !.video_success = (run["video"].ret = "True")]
            /\ SetRun("video", Over("video"))
    /\ UNCHANGED <<user_data, last_reply, updates, disk, terminal_msgs>>

\* A variant without the skip.
SkipsAudio_Never(choice, video_success) == FALSE

\* line 97
SkipsAudio(choice, video_success) == choice = "download_both" /\ ~video_success

\* lines 96-100
StartAudio ==
    /\ bh.pc = "audio"
    /\ IF bh.choice \in {"download_audio", "download_both"}
       THEN IF SkipsAudio(bh.choice, bh.video_success)
            THEN \E ok \in BOOLEAN :
                   IF ok
                   THEN /\ bh' = [bh EXCEPT !.pc = "completion",
                                            !.sent = <<"Skipping audio since video failed.">>]
                        /\ UNCHANGED run
                   ELSE HandlerEnds
            ELSE /\ bh' = [bh EXCEPT !.pc = "await_audio"]
                 /\ SetRun("audio", NewFrame("start", bh.url))
       ELSE /\ bh' = [bh EXCEPT !.pc = "completion"]
            /\ UNCHANGED run
    /\ UNCHANGED <<user_data, last_reply, updates, disk, terminal_msgs>>

\* line 100: the await completes
AudioDone ==
    /\ bh.pc = "await_audio"
    /\ Awaited("audio")
    /\ IF run["audio"].pc = "raised"
       THEN HandlerEnds
       ELSE /\ bh' = [bh EXCEPT !.pc = "completion", !.audio_success = (run["audio"].ret = "True")]
            /\ SetRun("audio", Over("audio"))
    /\ UNCHANGED <<user_data, last_reply, updates, disk, terminal_msgs>>

\* lines 103-113: the text of the completion message, NoMsg when none is sent
CompletionMsg(choice, video_success, audio_success) ==
    IF choice = "download_video" /\ video_success THEN <<"Video download complete!">>
    ELSE IF choice = "download_audio" /\ audio_success THEN <<"Audio download complete!">>
    ELSE IF choice = "download_both"
         THEN IF video_success /\ audio_success THEN <<"Both downloads complete!">>
              ELSE IF video_success \/ audio_success
                   THEN <<"Partial success - some downloads completed.">>
                   ELSE <<"All downloads failed. The video might be restricted.">>
         ELSE NoMsg

\* lines 103-113: context.bot.send_message of the completion text, if any
Completion ==
    /\ bh.pc = "completion"
    /\ LET text == CompletionMsg(bh.choice, bh.video_success, bh.audio_success) IN
       IF text = NoMsg
       THEN /\ bh' = [bh EXCEPT !.pc = "done"]
            /\ UNCHANGED run
       ELSE \E ok \in BOOLEAN :
              IF ok
              THEN /\ bh' = [bh EXCEPT !.pc = "done", !.completion = text]
                   /\ UNCHANGED run
              ELSE HandlerEnds
    /\ UNCHANGED <<user_data, last_reply, updates, disk, terminal_msgs>>

\* button_handler returns
Return ==
    /\ bh.pc = "done"
    /\ HandlerEnds
    /\ UNCHANGED <<user_data, last_reply, updates, disk, terminal_msgs>>

\* ------------------------------------------------------------ specification
Step(k) ==
    \/ SendPreparing(k)
    \/ ExtractInfo(k)
    \/ AltExtractInfo(k)
    \/ RejectProbe(k)
    \/ SizeCheckPre(k)
    \/ RejectProbedSize(k)
    \/ AnnounceDownload(k)
    \/ Download(k)
    \/ FallbackDownload(k)
    \/ SizeCheckPost(k)
    \/ ReportDownloadFailed(k)
    \/ RejectActualSize(k)
    \/ AnnounceUpload(k)
    \/ Upload(k)
    \/ DeleteStatus(k)
    \/ Except(k)
    \/ Finally(k)

Next ==
    \/ \E u \in Users, text \in Texts : handle_message(u, text)
    \/ \E u \in Users, c \in Choices : Press(u, c)
    \/ CheckUrl
    \/ StartVideo
    \/ VideoDone
    \/ StartAudio
    \/ AudioDone
    \/ Completion
    \/ Return
    \/ \E k \in MediaTypes : Step(k)

Spec == Init /\ [][Next]_vars

\* ------------------------------------------------------------ properties
\* The call for media type k is over: control is back in button_handler.
BackInCaller(k) == run[k].pc \in {"returned", "raised"}

\* The size the metadata of a run carries: the exact one if it is there and
\* not 0, else the approximate one; None when there is none.
Reported(i) ==
    IF i.filesize # None /\ i.filesize # 0 THEN i.filesize ELSE i.filesize_approx

Probed(k) == run[k].info # NoInfo

\* The status text is the too-large text of line 221, of line 260.
ShowsTooLarge(k) == run[k].shown # NoMsg /\ run[k].shown[1] = "File too large"
ShowsDownloadedTooLarge(k) ==
    run[k].shown # NoMsg /\ run[k].shown[1] = "Downloaded file too large"

\* The files on disk that the downloads of run k wrote.
Staged(k) == run[k].written \cap DOMAIN disk

\* C1: when a run returns control to its caller, on any path, no file its
\* primary or fallback download wrote is left in the staging directory.
C1_NoStagedFileAtReturn ==
    \A k \in MediaTypes : BackInCaller(k) => Staged(k) = {}

\* C2: metadata with neither an exact nor an approximate size is turned away
\* by the size check before download, and no download is made.
C2_UnknownSizeRejected ==
    \A k \in MediaTypes :
        (Probed(k) /\ Reported(run[k].info) = None /\ run[k].pre # "none")
            => run[k].pre = "reject" /\ run[k].downloads = << >>

\* C2 as amended: metadata with neither size passes the size check before
\* download: the run is never turned away there, and goes on to announce
\* and make the download.
C2_UnknownSizeAllowed ==
    \A k \in MediaTypes :
        (Probed(k) /\ Reported(run[k].info) = None)
            => /\ run[k].pre # "reject"
               /\ run[k].pc # "edit_too_large"
               /\ ~ShowsTooLarge(k)

C2_Witness ==
    \E k \in MediaTypes :
        /\ Probed(k) /\ Reported(run[k].info) = None
        /\ Len(run[k].downloads) >= 1
        /\ run[k].actual_size = MAX_FILE_SIZE - 1
        /\ run[k].delivered

\* C3: a file is handed to send_video / send_audio only if its size on disk
\* is at most MAX_FILE_SIZE; a file the check after download turned away is
\* never sent, whatever the metadata said.
C3_SentWithinCeiling ==
    \A k \in MediaTypes :
        /\ run[k].sent_size # None => run[k].sent_size <= 52428800
        /\ run[k].pc = "upload" =>
              exists(run[k].file_path) /\ disk[run[k].file_path] <= 52428800
        /\ run[k].actual_size > 52428800 => run[k].sent_size = None /\ ~run[k].delivered

C3_Witness ==
    \E k \in MediaTypes :
        /\ run[k].sent_size = 52428800
        /\ run[k].delivered
        /\ Probed(k) /\ Reported(run[k].info) = None

\* C4: metadata that reports a size above the ceiling stops the run at the
\* size check before download: the status message is edited to the
\* too-large text with that size, the run returns failure, and neither the
\* primary nor the fallback download is called.
C4_OversizeProbeStops ==
    \A k \in MediaTypes :
        (Probed(k) /\ Reported(run[k].info) > 52428800 /\ run[k].pre # "none")
            => /\ run[k].pre = "reject"
               /\ run[k].downloads = << >> /\ run[k].written = {}
               /\ run[k].pc \in {"edit_too_large", "except", "finally", "returned", "raised"}
               /\ run[k].ret # "True"
               /\ (run[k].pc = "returned" /\ run[k].e = "")
                     => /\ run[k].ret = "False"
                        /\ run[k].shown = MsgTooLarge(Reported(run[k].info))

C4_Witness ==
    \E k \in MediaTypes :
        /\ Probed(k) /\ run[k].info.filesize_approx = MAX_FILE_SIZE + 1
        /\ run[k].info.filesize = None
        /\ run[k].pc = "returned" /\ run[k].ret = "False"
        /\ run[k].shown = MsgTooLarge(MAX_FILE_SIZE + 1)

\* C5: both size checks allow a size that is there exactly when it is at
\* most 52428800: the ceiling passes, ceiling + 1 does not, and nothing at
\* or below the ceiling is turned away for its size.  The size checked
\* before download is the local `filesize` of line 217, the one checked
\* after it the local `actual_size` of line 257.
C5_CeilingIsInclusive ==
    \A k \in MediaTypes :
        /\ (Probed(k) /\ ProbedSize(run[k].info) # None /\ run[k].pre # "none")
              => (run[k].pre = "allow" <=> ProbedSize(run[k].info) <= 52428800)
        /\ run[k].post # "none"
              => (run[k].post = "allow" <=> run[k].actual_size <= 52428800)
        /\ ShowsTooLarge(k) => ProbedSize(run[k].info) > 52428800
        /\ ShowsDownloadedTooLarge(k) => run[k].actual_size > 52428800

C5_Witness ==
    \E k \in MediaTypes :
        /\ Probed(k) /\ ProbedSize(run[k].info) = 52428800 /\ run[k].pre = "allow"
        /\ run[k].actual_size = 52428800 /\ run[k].post = "allow"
        /\ run[k].delivered

C7_NoAudioAfterFailedVideo ==
    (bh.choice = "download_both" /\ run["video"].pc \in {"returned", "raised"}
        /\ run["video"].ret # "True")
        => /\ run["audio"] = NoFrame
           /\ bh.pc \in {"await_video", "audio", "completion", "done"}

C7_Witness ==
    /\ bh.choice = "download_both" /\ bh.pc = "completion"
    /\ run["video"].pc = "returned" /\ run["video"].cause = "restricted"
    /\ bh.sent = <<"Skipping audio since video failed.">>
    /\ run["audio"] = NoFrame

\* C8: within a download_both request the video call is over (it returned,
\* its finally block and its last status update done) before the audio
\* call takes its first step, and no video step is taken after that.
C8_VideoOverBeforeAudio ==
    run["audio"].pc # "idle"
        => run["video"].pc = IF bh.choice = "download_both" THEN "returned" ELSE "idle"

C8_Witness ==
    /\ bh.choice = "download_both"
    /\ run["video"].pc = "returned" /\ run["video"].ret = "True"
    /\ run["audio"].pc = "upload"

\* A download call that produced no file, by raising or by returning
\* without one.
Failed(d) == d.raised \/ d.wrote = NoPath

\* C9: at most two download calls per run; a second only after the first
\* failed, and with the fallback format; once the first has failed, the run
\* does not end without exactly one fallback call; a fallback that succeeds
\* with a file within the ceiling ends in delivery unless the transport
\* fails, and a fallback that fails ends without any upload.
C9_OneFallbackAfterFailure ==
    \A k \in MediaTypes :
        LET d == run[k].downloads IN
        /\ Len(d) <= 2
        /\ Len(d) = 2 => Failed(d[1]) /\ d[2].format = FallbackFormat(k)
        /\ (BackInCaller(k) /\ Len(d) >= 1 /\ Failed(d[1])) => Len(d) = 2
        /\ (BackInCaller(k) /\ Len(d) = 2 /\ ~Failed(d[2])
                /\ run[k].post # "reject" /\ run[k].e = "") => run[k].ret = "True"
        /\ (BackInCaller(k) /\ Len(d) = 2 /\ Failed(d[2])) => run[k].sent_size = None

\* C10: at any time at most one file written by the downloads of a run is
\* on disk.
C10_AtMostOneStagedFile ==
    \A k \in MediaTypes : Cardinality(Staged(k)) <= 1

\* C11: every failure of a step of a run is taken inside
\* download_and_send_media and ends in a failure return value: no exception
\* leaves the call for button_handler, the chat transport failing included.
C11_NoExceptionLeaves ==
    \A k \in MediaTypes :
        /\ run[k].pc # "raised"
        /\ run[k].ret # "raise"
        /\ (BackInCaller(k) /\ run[k].e # "") => run[k].ret = "False"

\* The status text is one of the final texts of a run that failed.
ShowsTerminal(k) ==
    /\ run[k].shown # NoMsg
    /\ \/ run[k].shown \in {MsgCannotDownload, MsgDownloadFailed}
       \/ run[k].shown[1] \in {"File too large", "Downloaded file too large", "Error"}

\* The final messages a run itself has put in the chat.
OwnTerminalMessages(k) ==
    (IF ShowsTerminal(k) THEN 1 ELSE 0) + (IF run[k].extra # NoMsg THEN 1 ELSE 0)

\* C12: a run that is over has produced exactly one final message: a run
\* that did not deliver has one final text of its own (in its status
\* message, or sent when there is none), and the request adds no further
\* message about that failure; a request that delivered something ends with
\* its completion message.
C12_ExactlyOneTerminalMessage ==
    /\ \A k \in MediaTypes :
          (BackInCaller(k) /\ run[k].url # NoUrl /\ run[k].ret # "True")
              => OwnTerminalMessages(k) = 1
    /\ (bh.pc = "done" /\ bh.choice = "download_both" /\ ~bh.video_success)
          => bh.sent = NoMsg /\ bh.completion = NoMsg
    /\ (bh.pc = "done" /\ (bh.video_success \/ bh.audio_success))
          => bh.completion # NoMsg

\* Content identifiers and extensions a path can be made of, among them
\* ones that hold the other media type's suffix.
PathIds == {"a", "a_audio", "a_video.mp4", "_"}
PathExts == {"mp4", "m4a", "webm", "webm.part", "m4a_video.mp4", ""}

OtherType(k) == IF k = "video" THEN "audio" ELSE "video"

\* The identifiers and extensions for which a video path is an audio path.
KindCollisions ==
    {c \in PathIds \X PathExts \X PathExts :
        StagingPath(c[1], "video", c[2]) = StagingPath(c[1], "audio", c[3])}

\* The paths the other media type can have for the link of run k.
PathsOfOtherType(id, k) ==
    {StagingPath(id, OtherType(k), e) : e \in PathExts \cup {ProbedExt(OtherType(k)), StrayExt}}

\* C14: for one link, the staging path of a video run and the staging path
\* of an audio run differ, for every content identifier and every
\* extension, and for the path of the primary and of the fallback download:
\* no path a run uses or writes is a path the other media type can have.
C14_KindsNeverCollide ==
    /\ KindCollisions = {}
    /\ \A k \in MediaTypes :
          (Probed(k) /\ run[k].downloads # << >>) =>
            (run[k].written \cup ({run[k].file_path} \ {NoPath}))
                \cap PathsOfOtherType(run[k].info.id, k) = {}

\* An audio run has its path from the fallback download while the file of
\* the video run of the same link is still on disk.
C14_Witness ==
    /\ run["audio"].file_path # NoPath
    /\ Len(run["audio"].downloads) = 2
    /\ run["audio"].file_path \in run["audio"].written
    /\ exists(StagingPath(run["audio"].info.id, "video", ProbedExt("video")))
    /\ Cardinality(DOMAIN disk) = 2

\* The finally block of run k finds nothing to remove.
NothingToRemove(k) == run[k].file_path = NoPath \/ ~exists(run[k].file_path)

\* C15: the removal step of the finally block never raises and can be
\* repeated: when the file is not there (never made), the step leaves the
\* file system, the status texts and the pending return value as they are;
\* and once the step has removed the file, the step again on what it left
\* changes nothing and does not raise.
C15_CleanupIdempotent ==
    [][\A k \in MediaTypes :
        run[k].pc = "finally" =>
          /\ run'[k].pc = (IF run[k].ret = "raise" THEN "raised" ELSE "returned")
          /\ run'[k].ret = run[k].ret
          /\ run'[k].shown = run[k].shown /\ run'[k].extra = run[k].extra
          /\ NothingToRemove(k) => disk' = disk
          /\ \A o \in Cleanup(disk', run[k].file_path) :
                (~NothingToRemove(k) /\ disk' # disk)
                    => o.disk = disk' /\ ~o.raises /\ o.did = "absent"
      ]_vars

\* The finally block has run with a path whose file was never made, and the
\* run returned what it was about to return.
C15_Witness ==
    \E k \in MediaTypes :
        /\ run[k].pc = "returned" /\ run[k].cleanup = "absent"
        /\ run[k].file_path # NoPath /\ run[k].written = {}
        /\ run[k].shown = MsgDownloadFailed /\ run[k].ret = "False"

\* C17: when the removal of the staged file fails, the failure is passed to
\* the logger, and the run still ends the way it was going to: with its
\* return value, if it had one, and with no message sent or edited for it.
C17_CleanupFailureLogged ==
    \A k \in MediaTypes :
        (BackInCaller(k) /\ run[k].cleanup = "failed")
            => /\ run[k].cleanup_log # << >>
               /\ run[k].pc = (IF run[k].ret = "raise" THEN "raised" ELSE "returned")
               /\ run[k].extra # NoMsg => ~run[k].status_msg

\* Where run k stands with its download, its upload.
Fetching(k) == run[k].pc \in {"download", "fallback"} \/ run[k].downloads # << >>
Uploading(k) == run[k].pc = "upload" \/ run[k].sent_size # None

\* C16: the phases of a run come in order: no download call before a
\* metadata query has answered and the size check before download has
\* allowed; no upload before a download of the run has produced the file
\* and the size check after download has allowed it; and a run that is
\* over takes no further step.
C16_PhasesInOrder ==
    [][\A k \in MediaTypes :
        /\ Fetching(k)' => Probed(k)' /\ run'[k].pre = "allow"
        /\ run'[k].post # "none" => run'[k].downloads # << >>
        /\ Uploading(k)' =>
              /\ run'[k].post = "allow"
              /\ run'[k].file_path \in run'[k].written
        /\ BackInCaller(k) => run'[k].pc \in {run[k].pc, "idle"}
      ]_vars

\* C18: the stored link is held only until a button press takes it: once
\* button_handler has gone past its link check to start a request, the
\* user's session holds no link any more, so that a press without a new
\* link finds none.
C18_UrlConsumedByPress ==
    bh.pc \notin {"idle", "answered"} => user_data[bh.user] = NoUrl

\* The step is handle_message taking message text t.
Receives(t) == updates' = updates + 1 /\ last_reply'.to = t

\* C19: a button press acts on the latest valid link of its user.  A
\* message that holds none of the known hosts leaves the stored link as it
\* was and gets a reply without buttons; a message that holds one replaces
\* the stored link by its stripped text; nothing else changes the stored
\* link; a press takes the stored link, and every run it starts is for that
\* link.  A press that finds no link only edits its message to ask for the
\* link again: no run is started, nothing is sent, queried or downloaded.
C19_PressActsOnLatestValidUrl ==
    [][/\ Receives(TextBad)
            => user_data' = user_data /\ ~last_reply'.buttons /\ run' = run
       /\ \A t \in {TextA, TextB} :
            Receives(t) => user_data'["u1"] = strip(t) /\ last_reply'.buttons
       /\ last_reply'.to = NoMsg => user_data' = user_data
       /\ (bh.pc = "idle" /\ bh'.pc = "answered") => bh'.url = user_data[bh'.user]
       /\ \A k \in MediaTypes :
            (run[k].pc = "idle" /\ run'[k].pc = "start")
                => run'[k].url = user_data[bh.user] /\ run'[k].url \in {strip(TextA), strip(TextB)}
       /\ (bh.pc = "answered" /\ user_data[bh.user] = NoUrl)
            => /\ bh'.pc \in {"done", "idle"}
               /\ bh'.pc = "done" => bh'.query_text = <<"Please send the link again.">>
               /\ run' = [k \in MediaTypes |-> NoFrame] /\ disk' = disk
       /\ (bh.pc = "done" /\ bh.url = NoUrl) => run = [k \in MediaTypes |-> NoFrame]
      ]_vars

\* A message without a known host came after a valid link, and the link
\* is still the stored one.
C19_Witness ==
    /\ last_reply.to = TextBad /\ ~last_reply.buttons
    /\ user_data["u1"] = strip(TextA)
    /\ updates = 2

\* C20: a run returns True exactly when send_video / send_audio completed
\* in it; so the audio run is skipped only when no video went out, and the
\* completion message of a request tells what went out: nothing was
\* delivered when it says all failed, and everything asked for when it
\* says complete.
C20_TrueIffDelivered ==
    /\ \A k \in MediaTypes :
          BackInCaller(k) => (run[k].ret = "True" <=> run[k].delivered)
    /\ bh.sent # NoMsg => ~run["video"].delivered
    /\ bh.completion = <<"All downloads failed. The video might be restricted.">>
          => \A k \in MediaTypes : ~run[k].delivered
    /\ bh.completion = <<"Both downloads complete!">>
          => \A k \in MediaTypes : run[k].delivered

====
